---- MODULE Spec2Model ----
(***************************************************************************)
(* youdb: a hashmap and a sorted set emulated on the buckets of an         *)
(* ordered, transactional key-value store (src/youdb.go).                  *)
(*                                                                         *)
(* Byte strings are sequences of byte values 0..MaxByte.  The model keeps  *)
(* the code's arithmetic and layout and scales the widths: a byte has      *)
(* MaxByte+1 values instead of 256 and a score has ScoreLen bytes instead  *)
(* of 8, so scoreMax = (MaxByte+1)^ScoreLen - 1 stands for 2^64-1.         *)
(***************************************************************************)
EXTENDS Integers, Sequences, FiniteSets, TLC

\* ------------------------------------------------------------------ bounds

\* the largest byte value (255 in the code: the sentinel []byte{255})
MaxByte == 1
\* the width of an encoded score in bytes (8 in the code)
ScoreLen == 3
\* the store's limit on the length of a key (the engine rejects longer keys)
MaxKeySize == 5
\* the number of concurrent callers
NumProcs == 3

\* ------------------------------------------------------- program constants

replyOK == "ok"
replyNotFound == "not_found"
replyError == "error"
replyClientError == "client_error"
bucketNotFound == "bucket_not_found"
keyNotFound == "key_not_found"

hashPrefix == <<30>>
zetKeyPrefix == <<31>>
zetScorePrefixOfHash == hashPrefix
zetScorePrefix == <<29>>

RECURSIVE Pow(_, _)
Pow(b, n) == IF n = 0 THEN 1 ELSE b * Pow(b, n - 1)

ByteBase == MaxByte + 1
UintMod == Pow(ByteBase, ScoreLen)

scoreMin == 0
scoreMax == UintMod - 1

\* ------------------------------------------------------------------- bytes

\* a nil slice, as distinct from an empty one
Nil == <<-1>>

Min(a, b) == IF a < b THEN a ELSE b

\* bytes.Compare: -1, 0, 1 in lexicographic order
RECURSIVE BytesCompare(_, _)
BytesCompare(a, b) ==
    IF Len(a) = 0 /\ Len(b) = 0 THEN 0
    ELSE IF Len(a) = 0 THEN -1
    ELSE IF Len(b) = 0 THEN 1
    ELSE IF Head(a) < Head(b) THEN -1
    ELSE IF Head(a) > Head(b) THEN 1
    ELSE BytesCompare(Tail(a), Tail(b))

\* bytes.Equal: a nil slice equals an empty one
BytesEqual(a, b) ==
    (IF a = Nil THEN <<>> ELSE a) = (IF b = Nil THEN <<>> ELSE b)

\* Bconcat of two slices
Bconcat(a, b) == a \o b

\* binary.BigEndian.PutUint64 into a fresh slice of ScoreLen bytes
RECURSIVE PutUint(_, _)
PutUint(v, n) ==
    IF n = 0 THEN <<>>
    ELSE Append(PutUint(v \div ByteBase, n - 1), v % ByteBase)

I2bLittleEndian(v) ==
    [i \in 1..ScoreLen |-> PutUint(v % UintMod, ScoreLen)[ScoreLen + 1 - i]]

I2b(v) == PutUint(v % UintMod, ScoreLen)

\* binary.BigEndian.Uint64 of the first ScoreLen bytes (the caller has
\* checked the length)
RECURSIVE GetUint(_, _)
GetUint(b, n) ==
    IF n = 0 THEN 0 ELSE GetUint(b, n - 1) * ByteBase + b[n]

\* B2i: panics on fewer than ScoreLen bytes; B2iPanics tells when
B2iPanics(v) == Len(v) < ScoreLen

B2i(v) == GetUint(v, ScoreLen)

\* ------------------------------------------------- the store's primitives

ErrNil == "nil"
ErrKeyRequired == "key required"
ErrKeyTooLarge == "key too large"
ErrBucketNameRequired == "bucket name required"
ErrBucketNotFound == "bucket not found"
ErrPanic == "panic"

EmptyBucket == [k \in {} |-> <<>>]
EmptyStore == [b \in {} |-> EmptyBucket]

\* a transaction's working state: the store as the transaction sees it and
\* the error the closure is returning
Tx(s, e) == [st |-> s, err |-> e]

\* tx.Bucket(name) != nil
HasBucket(s, bn) == bn \in DOMAIN s

\* tx.CreateBucketIfNotExists(name)
CreateBucketIfNotExists(s, bn) ==
    IF Len(bn) = 0 THEN Tx(s, ErrBucketNameRequired)
    ELSE IF bn \in DOMAIN s THEN Tx(s, ErrNil)
    ELSE Tx([x \in DOMAIN s \cup {bn} |-> IF x = bn THEN EmptyBucket ELSE s[x]],
            ErrNil)

\* tx.DeleteBucket(name)
DeleteBucket(s, bn) ==
    IF bn \notin DOMAIN s THEN Tx(s, ErrBucketNotFound)
    ELSE Tx([x \in DOMAIN s \ {bn} |-> s[x]], ErrNil)

\* b.Get(key): nil when the key is absent
Get(s, bn, key) ==
    IF key \in DOMAIN s[bn] THEN s[bn][key] ELSE Nil

\* b.Put(key, value)
Put(s, bn, key, val) ==
    IF Len(key) = 0 THEN Tx(s, ErrKeyRequired)
    ELSE IF Len(key) > MaxKeySize THEN Tx(s, ErrKeyTooLarge)
    ELSE Tx([s EXCEPT ![bn] =
                [k \in DOMAIN s[bn] \cup {key} |->
                    IF k = key THEN val ELSE s[bn][k]]],
            ErrNil)

\* b.Delete(key): no error when the key is absent
Delete(s, bn, key) ==
    Tx([s EXCEPT ![bn] = [k \in DOMAIN s[bn] \ {key} |-> s[bn][k]]], ErrNil)

\* db.DB.Update(fn): commits what fn wrote when fn returns nil, and rolls
\* back otherwise (also when fn panics)
UpdateCommitsAlways(s, r) == r.st

Update(s, r) == IF r.err = ErrNil THEN r.st ELSE s

\* ---------------------------------------------------------------- hashmap

ErrKvsLen == "kvs len must is an even number"
ErrOverflow == "overflow number"

\* what a mutating call hands back: the store after the call, the error it
\* returns and (Hincr, Zincr) the number it returns
Ret(s, e, n) == [st |-> s, err |-> e, num |-> n]

\* Hset
Hset(s, name, key, val) ==
    LET bucketName == Bconcat(hashPrefix, name)
        c == CreateBucketIfNotExists(s, bucketName)
        r == IF c.err # ErrNil THEN c ELSE Put(c.st, bucketName, key, val)
    IN  Ret(Update(s, r), r.err, 0)

\* the loop of Hmset from pair i on (i is the code's i, plus one)
RECURSIVE HmsetLoop(_, _, _, _)
HmsetLoop(s, bucketName, kvs, i) ==
    IF ~(i - 1 < Len(kvs) - 1) THEN Tx(s, ErrNil)
    ELSE LET p == Put(s, bucketName, kvs[i], kvs[i + 1])
         IN  IF p.err # ErrNil THEN p
             ELSE HmsetLoop(p.st, bucketName, kvs, i + 2)

HmsetNoLenCheck(s, name, kvs) ==
    LET bucketName == Bconcat(hashPrefix, name)
        c == CreateBucketIfNotExists(s, bucketName)
        r == IF c.err # ErrNil THEN c ELSE HmsetLoop(c.st, bucketName, kvs, 1)
    IN  Ret(Update(s, r), r.err, 0)

\* Hmset
Hmset(s, name, kvs) ==
    IF Len(kvs) = 0 \/ Len(kvs) % 2 # 0 THEN Ret(s, ErrKvsLen, 0)
    ELSE LET bucketName == Bconcat(hashPrefix, name)
             c == CreateBucketIfNotExists(s, bucketName)
             r == IF c.err # ErrNil THEN c
                  ELSE HmsetLoop(c.st, bucketName, kvs, 1)
         IN  Ret(Update(s, r), r.err, 0)

\* the overflow test of Hincr and Zincr on unsigned operands: TRUE when the
\* call is to fail with "overflow number"
OverflowNoGuard(oldNum, step) == FALSE

Overflow(oldNum, step) ==
    IF step > 0 THEN (scoreMax - step) < oldNum
    ELSE ((oldNum + step) % UintMod) < scoreMin

\* Hincr: the number returned is i, which is set only on success
Hincr(s, name, key, step) ==
    LET bucketName == Bconcat(hashPrefix, name)
        c == CreateBucketIfNotExists(s, bucketName)
        v == Get(c.st, bucketName, key)
        panics == v # Nil /\ B2iPanics(v)
        oldNum == IF v # Nil /\ ~panics THEN B2i(v) ELSE 0
        newNum == (oldNum + step) % UintMod
        r == IF c.err # ErrNil THEN c
             ELSE IF panics THEN Tx(c.st, ErrPanic)
             ELSE IF Overflow(oldNum, step) THEN Tx(c.st, ErrOverflow)
             ELSE Put(c.st, bucketName, key, I2b(newNum))
    IN  Ret(Update(s, r), r.err, IF r.err = ErrNil THEN newNum ELSE 0)

\* Hdel
Hdel(s, name, key) ==
    LET bucketName == Bconcat(hashPrefix, name)
        r == IF HasBucket(s, bucketName) THEN Delete(s, bucketName, key)
             ELSE Tx(s, ErrNil)
    IN  Ret(Update(s, r), r.err, 0)

\* HdelBucket
HdelBucket(s, name) ==
    LET bucketName == Bconcat(hashPrefix, name)
        r == DeleteBucket(s, bucketName)
    IN  Ret(Update(s, r), r.err, 0)

\* ------------------------------------------------------------- sorted set

ZsetBodyAlwaysWrites(s, keyBucket, scoreBucket, key, score) ==
    LET newKey == Bconcat(score, key)
        oldScore == Get(s, scoreBucket, key)
        p1 == Put(s, keyBucket, newKey, <<>>)
        p2 == Put(p1.st, scoreBucket, key, score)
        oldKey == Bconcat(oldScore, key)
    IN  IF p1.err # ErrNil THEN p1
        ELSE IF p2.err # ErrNil THEN p2
        ELSE IF oldScore # Nil THEN Delete(p2.st, keyBucket, oldKey)
        ELSE p2

\* the body of Zset after the two buckets exist, which is also the body of
\* Zmset's loop: write score||key and key -> score unless the stored score
\* equals the new one, then delete the old composite key
ZsetBody(s, keyBucket, scoreBucket, key, score) ==
    LET newKey == Bconcat(score, key)
        oldScore == Get(s, scoreBucket, key)
        p1 == Put(s, keyBucket, newKey, <<>>)
        p2 == Put(p1.st, scoreBucket, key, score)
        oldKey == Bconcat(oldScore, key)
    IN  IF BytesEqual(oldScore, score) THEN Tx(s, ErrNil)
        ELSE IF p1.err # ErrNil THEN p1
        ELSE IF p2.err # ErrNil THEN p2
        ELSE IF oldScore # Nil THEN Delete(p2.st, keyBucket, oldKey)
        ELSE p2

\* the two CreateBucketIfNotExists calls that open Zset, Zmset and Zincr
ZCreate(s, keyBucket, scoreBucket) ==
    LET c1 == CreateBucketIfNotExists(s, keyBucket)
    IN  IF c1.err # ErrNil THEN c1
        ELSE CreateBucketIfNotExists(c1.st, scoreBucket)

\* Zset
Zset(s, name, key, val) ==
    LET score == I2b(val)
        keyBucket == Bconcat(zetKeyPrefix, name)
        scoreBucket == Bconcat(zetScorePrefix, name)
        c == ZCreate(s, keyBucket, scoreBucket)
        r == IF c.err # ErrNil THEN c
             ELSE ZsetBody(c.st, keyBucket, scoreBucket, key, score)
    IN  Ret(Update(s, r), r.err, 0)

\* the loop of Zmset from pair i on (i is the code's i, plus one)
RECURSIVE ZmsetLoop(_, _, _, _, _)
ZmsetLoop(s, keyBucket, scoreBucket, kvs, i) ==
    IF ~(i - 1 < Len(kvs) - 1) THEN Tx(s, ErrNil)
    ELSE LET p == ZsetBody(s, keyBucket, scoreBucket, kvs[i], kvs[i + 1])
         IN  IF p.err # ErrNil THEN p
             ELSE ZmsetLoop(p.st, keyBucket, scoreBucket, kvs, i + 2)

\* Zmset
Zmset(s, name, kvs) ==
    IF Len(kvs) = 0 \/ Len(kvs) % 2 # 0 THEN Ret(s, ErrKvsLen, 0)
    ELSE LET keyBucket == Bconcat(zetKeyPrefix, name)
             scoreBucket == Bconcat(zetScorePrefix, name)
             c == ZCreate(s, keyBucket, scoreBucket)
             r == IF c.err # ErrNil THEN c
                  ELSE ZmsetLoop(c.st, keyBucket, scoreBucket, kvs, 1)
         IN  Ret(Update(s, r), r.err, 0)

\* Zincr: the number returned is the closure's score variable, which holds
\* the old score when the overflow test fails and the new one from then on
Zincr(s, name, key, step) ==
    LET keyBucket == Bconcat(zetKeyPrefix, name)
        scoreBucket == Bconcat(zetScorePrefix, name)
        c == ZCreate(s, keyBucket, scoreBucket)
        vOld == Get(c.st, scoreBucket, key)
        panics == vOld # Nil /\ B2iPanics(vOld)
        score == IF vOld # Nil /\ ~panics THEN B2i(vOld) ELSE 0
        newScore == (score + step) % UintMod
        newScoreB == I2b(newScore)
        newKey == Bconcat(newScoreB, key)
        p1 == Put(c.st, keyBucket, newKey, <<>>)
        p2 == Put(p1.st, scoreBucket, key, newScoreB)
        oldKey == Bconcat(vOld, key)
        r == IF c.err # ErrNil THEN c
             ELSE IF panics THEN Tx(c.st, ErrPanic)
             ELSE IF Overflow(score, step) THEN Tx(c.st, ErrOverflow)
             ELSE IF p1.err # ErrNil THEN p1
             ELSE IF p2.err # ErrNil THEN p2
             ELSE IF vOld # Nil THEN Delete(p2.st, keyBucket, oldKey)
             ELSE p2
    IN  Ret(Update(s, r), r.err,
            IF c.err # ErrNil \/ panics THEN 0
            ELSE IF r.err = ErrOverflow THEN score ELSE newScore)

ZdelMemberIndexOnly(s, name, key) ==
    LET keyBucket == Bconcat(zetKeyPrefix, name)
        scoreBucket == Bconcat(zetScorePrefix, name)
        oldScore == Get(s, scoreBucket, key)
        r == IF ~HasBucket(s, keyBucket) THEN Tx(s, ErrNil)
             ELSE IF ~HasBucket(s, scoreBucket) THEN Tx(s, ErrNil)
             ELSE IF oldScore = Nil THEN Tx(s, ErrNil)
             ELSE Delete(s, scoreBucket, key)
    IN  Ret(Update(s, r), r.err, 0)

\* Zdel
Zdel(s, name, key) ==
    LET keyBucket == Bconcat(zetKeyPrefix, name)
        scoreBucket == Bconcat(zetScorePrefix, name)
        oldScore == Get(s, scoreBucket, key)
        oldKey == Bconcat(oldScore, key)
        d1 == Delete(s, keyBucket, oldKey)
        r == IF ~HasBucket(s, keyBucket) THEN Tx(s, ErrNil)
             ELSE IF ~HasBucket(s, scoreBucket) THEN Tx(s, ErrNil)
             ELSE IF oldScore = Nil THEN Tx(s, ErrNil)
             ELSE IF d1.err # ErrNil THEN d1
             ELSE Delete(d1.st, scoreBucket, key)
    IN  Ret(Update(s, r), r.err, 0)

\* ZdelBucket
ZdelBucket(s, name) ==
    LET keyBucket == Bconcat(zetKeyPrefix, name)
        scoreBucket == Bconcat(zetScorePrefix, name)
        d1 == DeleteBucket(s, keyBucket)
        r == IF d1.err # ErrNil THEN d1 ELSE DeleteBucket(d1.st, scoreBucket)
    IN  Ret(Update(s, r), r.err, 0)

\* ---------------------------------------------------------------- queries

\* a Reply: State and Data
Reply(state, data) == [State |-> state, Data |-> data]

ReplyOfAlwaysOK(data) == Reply(replyOK, data)

\* the tail every query shares: State starts as replyError, becomes replyOK
\* with the first value appended, and becomes the closure's error if any
ReplyOf(data) == Reply(IF Len(data) > 0 THEN replyOK ELSE replyError, data)

ReplyPanic == Reply(ErrPanic, <<>>)

HgetMissingAsOK(s, name, key) ==
    LET bucketName == Bconcat(hashPrefix, name)
    IN  IF ~HasBucket(s, bucketName) THEN Reply(bucketNotFound, <<>>)
        ELSE LET v == Get(s, bucketName, key)
             IN  Reply(replyOK, IF v = Nil THEN <<>> ELSE <<v>>)

\* Hget
Hget(s, name, key) ==
    LET bucketName == Bconcat(hashPrefix, name)
    IN  IF ~HasBucket(s, bucketName) THEN Reply(bucketNotFound, <<>>)
        ELSE LET v == Get(s, bucketName, key)
             IN  IF v = Nil THEN Reply(keyNotFound, <<>>)
                 ELSE Reply(replyOK, <<v>>)

RECURSIVE MgetLoopKeepsMissing(_, _, _, _)
MgetLoopKeepsMissing(s, bucketName, keys, i) ==
    IF i > Len(keys) THEN <<>>
    ELSE LET v == Get(s, bucketName, keys[i])
         IN  <<keys[i], IF v # Nil THEN v ELSE <<>>>>
                 \o MgetLoopKeepsMissing(s, bucketName, keys, i + 1)

\* the loop of Hmget and Zmget over the requested keys, from the i-th on
RECURSIVE MgetLoop(_, _, _, _)
MgetLoop(s, bucketName, keys, i) ==
    IF i > Len(keys) THEN <<>>
    ELSE LET v == Get(s, bucketName, keys[i])
         IN  (IF v # Nil THEN <<keys[i], v>> ELSE <<>>)
                 \o MgetLoop(s, bucketName, keys, i + 1)

\* Hmget
Hmget(s, name, keys) ==
    LET bucketName == Bconcat(hashPrefix, name)
    IN  IF ~HasBucket(s, bucketName) THEN Reply(bucketNotFound, <<>>)
        ELSE ReplyOf(MgetLoop(s, bucketName, keys, 1))

\* Zget
Zget(s, name, key) ==
    LET scoreBucket == Bconcat(zetScorePrefix, name)
    IN  IF ~HasBucket(s, scoreBucket) THEN Reply(bucketNotFound, <<>>)
        ELSE LET v == Get(s, scoreBucket, key)
             IN  IF v # Nil THEN Reply(replyOK, <<v>>)
                 ELSE Reply(keyNotFound, <<>>)

\* Zmget
Zmget(s, name, keys) ==
    LET scoreBucket == Bconcat(zetScorePrefix, name)
    IN  IF ~HasBucket(s, scoreBucket) THEN Reply(bucketNotFound, <<>>)
        ELSE ReplyOf(MgetLoop(s, scoreBucket, keys, 1))

\* ----------------------------------------------------------------- cursors

\* the keys of a bucket in the order a cursor visits them (bytes.Compare)
RECURSIVE SortKeys(_)
SortKeys(S) ==
    IF S = {} THEN <<>>
    ELSE LET m == CHOOSE x \in S : \A y \in S : BytesCompare(x, y) <= 0
         IN  <<m>> \o SortKeys(S \ {m})

BucketKeys(s, bn) == SortKeys(DOMAIN s[bn])

\* a cursor is an index into the bucket's keys; 0 is the nil key
\* c.Seek(seek): the first key >= seek, nil when no key follows
CursorSeek(keys, seek) ==
    LET ge == {i \in 1..Len(keys) : BytesCompare(keys[i], seek) >= 0}
    IN  IF ge = {} THEN 0 ELSE CHOOSE i \in ge : \A j \in ge : i <= j

\* c.Next()
CursorNext(keys, i) == IF i < Len(keys) THEN i + 1 ELSE 0

\* c.Prev()
CursorPrev(keys, i) == i - 1

\* c.Last()
CursorLast(keys) == Len(keys)

\* what a scan loop has built: the data, or a panic (a slice out of range)
Scan(panic, data) == [panic |-> panic, data |-> data]

ScanReply(r) == IF r.panic THEN ReplyPanic ELSE ReplyOf(r.data)

\* the pair a sorted-set scan appends for key k: k[8:], k[0:8]
ZPair(k) == <<SubSeq(k, ScoreLen + 1, Len(k)), SubSeq(k, 1, ScoreLen)>>

\* the loop of Zscan with the cursor at i, n pairs appended so far
RECURSIVE ZscanLoop(_, _, _, _, _, _)
ZscanLoop(keys, i, startScoreKeyB, limit, n, data) ==
    IF i = 0 THEN Scan(FALSE, data)
    ELSE IF BytesCompare(keys[i], startScoreKeyB) = 1
    THEN IF Len(keys[i]) < ScoreLen THEN Scan(TRUE, data)
         ELSE IF n + 1 = limit THEN Scan(FALSE, data \o ZPair(keys[i]))
         ELSE ZscanLoop(keys, CursorNext(keys, i), startScoreKeyB, limit,
                        n + 1, data \o ZPair(keys[i]))
    ELSE ZscanLoop(keys, CursorNext(keys, i), startScoreKeyB, limit, n, data)

ZscanInclusive(s, name, keyStart, scoreStart, limit) ==
    LET keyBucket == Bconcat(zetKeyPrefix, name)
        scoreStartB == IF Len(scoreStart) > 0 THEN scoreStart ELSE I2b(scoreMin)
        keys == BucketKeys(s, keyBucket)
    IN  IF ~HasBucket(s, keyBucket) THEN Reply(bucketNotFound, <<>>)
        ELSE ScanReply(ZscanLoop(keys, CursorSeek(keys, scoreStartB),
                                 scoreStartB, limit, 0, <<>>))

\* Zscan
Zscan(s, name, keyStart, scoreStart, limit) ==
    LET keyBucket == Bconcat(zetKeyPrefix, name)
        scoreStartB == IF Len(scoreStart) > 0 THEN scoreStart ELSE I2b(scoreMin)
        startScoreKeyB == Bconcat(scoreStartB, keyStart)
        keys == BucketKeys(s, keyBucket)
    IN  IF ~HasBucket(s, keyBucket) THEN Reply(bucketNotFound, <<>>)
        ELSE ScanReply(ZscanLoop(keys, CursorSeek(keys, scoreStartB),
                                 startScoreKeyB, limit, 0, <<>>))

\* the loop of Zrscan with the cursor at i, n pairs appended so far
RECURSIVE ZrscanLoop(_, _, _, _, _, _)
ZrscanLoop(keys, i, startScoreKeyB, limit, n, data) ==
    IF i = 0 THEN Scan(FALSE, data)
    ELSE IF BytesCompare(keys[i], startScoreKeyB) = -1
    THEN IF Len(keys[i]) < ScoreLen THEN Scan(TRUE, data)
         ELSE IF n + 1 = limit THEN Scan(FALSE, data \o ZPair(keys[i]))
         ELSE ZrscanLoop(keys, CursorPrev(keys, i), startScoreKeyB, limit,
                         n + 1, data \o ZPair(keys[i]))
    ELSE ZrscanLoop(keys, CursorPrev(keys, i), startScoreKeyB, limit, n, data)

\* Zrscan
Zrscan(s, name, keyStart, scoreStart, limit) ==
    LET keyBucket == Bconcat(zetKeyPrefix, name)
        startKey == IF Len(keyStart) > 0 THEN keyStart ELSE <<MaxByte>>
        scoreStartB == IF Len(scoreStart) > 0 THEN scoreStart ELSE I2b(scoreMax)
        startScoreKeyB == Bconcat(scoreStartB, startKey)
        keys == BucketKeys(s, keyBucket)
        k0 == IF Len(scoreStart) > 0 THEN CursorSeek(keys, scoreStartB)
              ELSE CursorLast(keys)
    IN  IF ~HasBucket(s, keyBucket) THEN Reply(bucketNotFound, <<>>)
        ELSE ScanReply(ZrscanLoop(keys, k0, startScoreKeyB, limit, 0, <<>>))

\* the loop of Hscan with the cursor at i, n pairs appended so far
RECURSIVE HscanLoop(_, _, _, _, _, _, _, _)
HscanLoop(s, bn, keys, i, keyStart, limit, n, data) ==
    IF i = 0 THEN data
    ELSE IF BytesCompare(keys[i], keyStart) = 1
    THEN IF n + 1 = limit THEN data \o <<keys[i], s[bn][keys[i]]>>
         ELSE HscanLoop(s, bn, keys, CursorNext(keys, i), keyStart, limit,
                        n + 1, data \o <<keys[i], s[bn][keys[i]]>>)
    ELSE HscanLoop(s, bn, keys, CursorNext(keys, i), keyStart, limit, n, data)

HscanInclusive(s, name, keyStart, limit) ==
    LET bucketName == Bconcat(hashPrefix, name)
        keys == BucketKeys(s, bucketName)
    IN  IF ~HasBucket(s, bucketName) THEN Reply(bucketNotFound, <<>>)
        ELSE ReplyOf(HscanLoop(s, bucketName, keys, CursorSeek(keys, keyStart),
                               <<>>, limit, 0, <<>>))

\* Hscan
Hscan(s, name, keyStart, limit) ==
    LET bucketName == Bconcat(hashPrefix, name)
        keys == BucketKeys(s, bucketName)
    IN  IF ~HasBucket(s, bucketName) THEN Reply(bucketNotFound, <<>>)
        ELSE ReplyOf(HscanLoop(s, bucketName, keys, CursorSeek(keys, keyStart),
                               keyStart, limit, 0, <<>>))

\* the loop of Hrscan with the cursor at i, n pairs appended so far; it
\* leaves on n >= limit
RECURSIVE HrscanLoop(_, _, _, _, _, _, _, _)
HrscanLoop(s, bn, keys, i, startKey, limit, n, data) ==
    IF i = 0 THEN data
    ELSE IF BytesCompare(keys[i], startKey) = -1
    THEN IF n + 1 >= limit THEN data \o <<keys[i], s[bn][keys[i]]>>
         ELSE HrscanLoop(s, bn, keys, CursorPrev(keys, i), startKey, limit,
                         n + 1, data \o <<keys[i], s[bn][keys[i]]>>)
    ELSE HrscanLoop(s, bn, keys, CursorPrev(keys, i), startKey, limit, n, data)

\* the View closure of Hrscan: the error it returns and the Data it built
HrscanView(s, name, keyStart, limit) ==
    LET bucketName == Bconcat(hashPrefix, name)
        startKey == IF Len(keyStart) > 0 THEN keyStart ELSE <<MaxByte>>
        keys == BucketKeys(s, bucketName)
        k0 == IF Len(keyStart) > 0 THEN CursorSeek(keys, startKey)
              ELSE CursorLast(keys)
    IN  IF ~HasBucket(s, bucketName) THEN [err |-> bucketNotFound, data |-> <<>>]
        ELSE [err |-> ErrNil,
              data |-> HrscanLoop(s, bucketName, keys, k0, startKey, limit,
                                  0, <<>>)]

\* Hrscan: after the closure, `if err == nil { r.State = err.Error() }` calls
\* a method of the nil error, which panics; a closure that failed leaves the
\* State as it was initialised
Hrscan(s, name, keyStart, limit) ==
    LET v == HrscanView(s, name, keyStart, limit)
    IN  IF v.err = ErrNil THEN ReplyPanic
        ELSE Reply(replyError, v.data)

\* ------------------------------------------------- codec and Reply decoders

\* what a function hands back: a value, or a panic
Returned(v) == [panic |-> FALSE, val |-> v]
Panicked == [panic |-> TRUE, val |-> <<>>]

\* a call of B2i: binary.BigEndian.Uint64 indexes v[7] and panics on a
\* shorter slice
B2iCall(v) == IF B2iPanics(v) THEN Panicked ELSE Returned(B2i(v))

\* strconv.FormatUint(n, 10): the decimal digits of n
RECURSIVE FormatUint(_)
FormatUint(n) ==
    IF n < 10 THEN <<n>> ELSE Append(FormatUint(n \div 10), n % 10)

\* B2ds
B2ds(v) == IF B2iPanics(v) THEN Panicked ELSE Returned(FormatUint(B2i(v)))

\* B2s: the same bytes, seen as a string
B2s(b) == b

\* int64(v) of an unsigned v
ToInt(v) == IF 2 * v >= UintMod THEN v - UintMod ELSE v

\* Reply.String
ReplyString(r) ==
    Returned(IF Len(r.Data) > 0 THEN B2s(r.Data[1]) ELSE <<>>)

\* Reply.Uint64
ReplyUint64(r) ==
    Returned(IF Len(r.Data) < 1 THEN 0
             ELSE IF Len(r.Data[1]) < ScoreLen THEN 0
             ELSE GetUint(r.Data[1], ScoreLen))

\* Reply.Int
ReplyInt(r) == Returned(ToInt(ReplyUint64(r).val))

\* Reply.Int64
ReplyInt64(r) ==
    IF Len(r.Data) < 1 THEN Returned(0)
    ELSE Returned(ToInt(ReplyUint64(r).val))

\* Reply.Uint
ReplyUint(r) == Returned(ReplyUint64(r).val)

Entry(k, v) == [Key |-> k, Value |-> v]

\* the loop of Reply.List from element i on (i is the code's i, plus one)
RECURSIVE ListLoop(_, _)
ListLoop(data, i) ==
    IF ~(i - 1 < Len(data) - 1) THEN <<>>
    ELSE <<Entry(data[i], data[i + 1])>> \o ListLoop(data, i + 2)

\* Reply.List
ReplyList(r) ==
    Returned(IF Len(r.Data) < 1 THEN <<>> ELSE ListLoop(r.Data, 1))

\* the loop of Reply.Dict from element i on
RECURSIVE DictLoop(_, _, _)
DictLoop(dict, data, i) ==
    IF ~(i - 1 < Len(data) - 1) THEN dict
    ELSE DictLoop([k \in DOMAIN dict \cup {B2s(data[i])} |->
                      IF k = B2s(data[i]) THEN data[i + 1] ELSE dict[k]],
                  data, i + 2)

\* Reply.Dict
ReplyDict(r) ==
    Returned(IF Len(r.Data) < 1 THEN EmptyBucket
             ELSE DictLoop(EmptyBucket, r.Data, 1))

\* Reply.JSON: r.Data[0] is indexed without a test of len(r.Data); the
\* outcome of json.Unmarshal on the bytes is an error value or nil
ReplyJSON(r) ==
    IF Len(r.Data) < 1 THEN Panicked
    ELSE Returned([unmarshal |-> r.Data[1]])

\* ----------------------------------------------------------- state machine

VARIABLES
    store,   \* the committed store: bucket name -> (key -> value)
    family,  \* the family of structure the client works on in this run
    call,    \* the last call: its operation, structure name and arguments
    err,     \* the error the last mutating call returned (ErrNil: none)
    num,     \* the number the last Hincr or Zincr returned
    reply,   \* the Reply the last query returned
    written, \* history: what the successful calls so far have written
    result,  \* what the last call of a codec or decoder function returned
    writer,  \* the caller that holds the store's writer lock (0: nobody)
    procs    \* the concurrent callers: position, arguments, transaction

vars == <<store, family, call, err, num, reply, written, result, writer, procs>>

\* the inputs the client draws its arguments from
NameA == <<1>>
Names == {NameA}

K0 == <<0>>
K1 == <<MaxByte>>
KAfter == <<MaxByte, 0>>
LongKey == [i \in 1..(MaxKeySize + 1) |-> 0]
\* a member that fits the member index but whose composite key is too long
LongMember == [i \in 1..(MaxKeySize - ScoreLen + 1) |-> 0]
ShortVal == <<1>>
LongVal == I2b(1) \o <<0>>

HKeys == {<<>>, K0, K1, LongKey}
HVals == {<<>>, ShortVal, I2b(1), I2b(scoreMax), LongVal}
HKvs ==
    { <<>>, <<K0>>, <<K0, I2b(1), K1>>,
      <<K0, I2b(1)>>, <<K0, I2b(1), K1, I2b(scoreMax)>>,
      <<K0, I2b(1), K0, I2b(scoreMax)>>, <<K1, ShortVal, <<>>, I2b(1)>>,
      <<KAfter, ShortVal>> }
KeyLists == {<<>>, <<K0>>, <<K0, K1>>, <<K1, K0>>}

ZMembers == {<<>>, K0, K1, LongMember}
ZVals == {0, 1, scoreMax}
ZKvs ==
    { <<>>, <<K0>>, <<K0, I2b(1), K1>>,
      <<K0, I2b(1)>>, <<K0, I2b(1), K1, I2b(1)>>,
      <<K0, I2b(0), K0, I2b(scoreMax)>>, <<K1, I2b(1), <<>>, I2b(1)>>,
      <<K0, ShortVal>> }
Steps == {0, scoreMax - 1, scoreMax}
KeyStarts == {<<>>, K0, K1, KAfter}
ScoreStarts == {<<>>, I2b(0), I2b(1), I2b(scoreMax)}
Limits == {-1, 0, 1, 2}

NoCall == [op |-> "none", name |-> <<>>, args |-> <<>>]
NoReply == Reply("none", <<>>)

NoResult == Returned(<<>>)
NoProcs == <<>>

\* The history variable keeps, per family, whether the structure exists and
\* the value last written for each key of it, as the calls that returned no
\* error define them; no operation of the store is used to maintain it.
AbsAbsent == [present |-> FALSE, map |-> EmptyBucket]

AbsWrite(m, k, v) ==
    [present |-> TRUE,
     map |-> [x \in DOMAIN m.map \cup {k} |-> IF x = k THEN v ELSE m.map[x]]]

RECURSIVE AbsWriteAll(_, _, _)
AbsWriteAll(m, kvs, i) ==
    IF i + 1 > Len(kvs) THEN m
    ELSE AbsWriteAll(AbsWrite(m, kvs[i], kvs[i + 1]), kvs, i + 2)

AbsRemove(m, k) ==
    [m EXCEPT !.map = [x \in DOMAIN m.map \ {k} |-> m.map[x]]]

WrittenAfter(w, op, args, n) ==
    CASE op = "Hset" -> [w EXCEPT !.h = AbsWrite(@, args[1], args[2])]
      [] op = "Hmset" -> [w EXCEPT !.h = AbsWriteAll(@, args[1], 1)]
      [] op = "Hincr" -> [w EXCEPT !.h = AbsWrite(@, args[1], PutUint(n, ScoreLen))]
      [] op = "Hdel" -> [w EXCEPT !.h = AbsRemove(@, args[1])]
      [] op = "HdelBucket" -> [w EXCEPT !.h = AbsAbsent]
      [] op = "Zset" -> [w EXCEPT !.z = AbsWrite(@, args[1], PutUint(args[2], ScoreLen))]
      [] op = "Zmset" -> [w EXCEPT !.z = AbsWriteAll(@, args[1], 1)]
      [] op = "Zincr" -> [w EXCEPT !.z = AbsWrite(@, args[1], PutUint(n, ScoreLen))]
      [] op = "Zdel" -> [w EXCEPT !.z = AbsRemove(@, args[1])]
      [] op = "ZdelBucket" -> [w EXCEPT !.z = AbsAbsent]

Init ==
    /\ store = EmptyStore
    /\ written = [h |-> AbsAbsent, z |-> AbsAbsent]
    /\ family \in {"hash", "zset"}
    /\ call = NoCall
    /\ err = ErrNil
    /\ num = 0
    /\ reply = NoReply
    /\ result = NoResult
    /\ writer = 0
    /\ procs = NoProcs

\* a mutating call returns r
Mutated(op, name, args, r) ==
    /\ store' = r.st
    /\ call' = [op |-> op, name |-> name, args |-> args]
    /\ err' = r.err
    /\ num' = r.num
    /\ reply' = NoReply
    /\ written' = IF r.err = ErrNil THEN WrittenAfter(written, op, args, r.num)
                  ELSE written
    /\ UNCHANGED <<family, result, writer, procs>>

\* a query returns the Reply rep
Queried(op, name, args, rep) ==
    /\ call' = [op |-> op, name |-> name, args |-> args]
    /\ err' = ErrNil
    /\ num' = 0
    /\ reply' = rep
    /\ UNCHANGED <<store, family, written, result, writer, procs>>

HsetAct(name) ==
    /\ family = "hash"
    /\ \E key \in HKeys, val \in HVals :
          Mutated("Hset", name, <<key, val>>, Hset(store, name, key, val))

HmsetAct(name) ==
    /\ family = "hash"
    /\ \E kvs \in HKvs :
          Mutated("Hmset", name, <<kvs>>, Hmset(store, name, kvs))

HincrAct(name) ==
    /\ family = "hash"
    /\ \E key \in HKeys, step \in Steps :
          Mutated("Hincr", name, <<key, step>>, Hincr(store, name, key, step))

HdelAct(name) ==
    /\ family = "hash"
    /\ \E key \in HKeys :
          Mutated("Hdel", name, <<key>>, Hdel(store, name, key))

HdelBucketAct(name) ==
    /\ family = "hash"
    /\ Mutated("HdelBucket", name, <<>>, HdelBucket(store, name))

HgetAct(name) ==
    /\ family = "hash"
    /\ \E key \in HKeys :
          Queried("Hget", name, <<key>>, Hget(store, name, key))

HmgetAct(name) ==
    /\ family = "hash"
    /\ \E keys \in KeyLists :
          Queried("Hmget", name, <<keys>>, Hmget(store, name, keys))

HscanAct(name) ==
    /\ family = "hash"
    /\ \E keyStart \in KeyStarts, limit \in Limits :
          Queried("Hscan", name, <<keyStart, limit>>,
                  Hscan(store, name, keyStart, limit))

HrscanAct(name) ==
    /\ family = "hash"
    /\ \E keyStart \in KeyStarts, limit \in Limits :
          Queried("Hrscan", name, <<keyStart, limit>>,
                  Hrscan(store, name, keyStart, limit))

ZsetAct(name) ==
    /\ family = "zset"
    /\ \E key \in ZMembers, val \in ZVals :
          Mutated("Zset", name, <<key, val>>, Zset(store, name, key, val))

ZmsetAct(name) ==
    /\ family = "zset"
    /\ \E kvs \in ZKvs :
          Mutated("Zmset", name, <<kvs>>, Zmset(store, name, kvs))

ZincrAct(name) ==
    /\ family = "zset"
    /\ \E key \in ZMembers, step \in Steps :
          Mutated("Zincr", name, <<key, step>>, Zincr(store, name, key, step))

ZdelAct(name) ==
    /\ family = "zset"
    /\ \E key \in ZMembers :
          Mutated("Zdel", name, <<key>>, Zdel(store, name, key))

ZdelBucketAct(name) ==
    /\ family = "zset"
    /\ Mutated("ZdelBucket", name, <<>>, ZdelBucket(store, name))

ZgetAct(name) ==
    /\ family = "zset"
    /\ \E key \in ZMembers :
          Queried("Zget", name, <<key>>, Zget(store, name, key))

ZmgetAct(name) ==
    /\ family = "zset"
    /\ \E keys \in KeyLists :
          Queried("Zmget", name, <<keys>>, Zmget(store, name, keys))

ZscanAct(name) ==
    /\ family = "zset"
    /\ \E keyStart \in KeyStarts, scoreStart \in ScoreStarts, limit \in Limits :
          Queried("Zscan", name, <<keyStart, scoreStart, limit>>,
                  Zscan(store, name, keyStart, scoreStart, limit))

ZrscanAct(name) ==
    /\ family = "zset"
    /\ \E keyStart \in KeyStarts, scoreStart \in ScoreStarts, limit \in Limits :
          Queried("Zrscan", name, <<keyStart, scoreStart, limit>>,
                  Zrscan(store, name, keyStart, scoreStart, limit))

Next ==
    \E name \in Names :
        \/ HsetAct(name)
        \/ HmsetAct(name)
        \/ HincrAct(name)
        \/ HdelAct(name)
        \/ HdelBucketAct(name)
        \/ HgetAct(name)
        \/ HmgetAct(name)
        \/ HscanAct(name)
        \/ HrscanAct(name)
        \/ ZsetAct(name)
        \/ ZmsetAct(name)
        \/ ZincrAct(name)
        \/ ZdelAct(name)
        \/ ZdelBucketAct(name)
        \/ ZgetAct(name)
        \/ ZmgetAct(name)
        \/ ZscanAct(name)
        \/ ZrscanAct(name)

Spec == Init /\ [][Next]_vars

\* a client that only calls Zset, Zincr and Zdel on a sorted set
InitZ == Init /\ family = "zset"

NextZsetZincrZdel ==
    \E name \in Names :
        \/ ZsetAct(name)
        \/ ZincrAct(name)
        \/ ZdelAct(name)

SpecZsetZincrZdel == InitZ /\ [][NextZsetZincrZdel]_vars

\* a client that builds a sorted set by Zset calls and scans it
NextZsetScan ==
    \E name \in Names :
        \/ ZsetAct(name)
        \/ ZscanAct(name)
        \/ ZrscanAct(name)

SpecZsetScan == InitZ /\ [][NextZsetScan]_vars

\* --- a client of the codec and of the Reply decoders: it starts with the
\* arguments of one call (two numbers, a byte string, or a Reply) and calls
\* a function on them

UintInputs == 0..scoreMax
BytesInputs == UNION {[1..l -> 0..MaxByte] : l \in 0..(ScoreLen + 1)}
DataElems == {<<>>, ShortVal, I2b(scoreMax)}
ReplyInputs ==
    {ReplyOf(d) : d \in UNION {[1..l -> DataElems] : l \in 0..3}}
        \cup {Reply(keyNotFound, <<>>), Reply(bucketNotFound, <<>>)}

InitCodec ==
    /\ store = EmptyStore
    /\ written = [h |-> AbsAbsent, z |-> AbsAbsent]
    /\ family = "codec"
    /\ err = ErrNil
    /\ num = 0
    /\ result = NoResult
    /\ writer = 0
    /\ procs = NoProcs
    /\ \/ /\ \E x, y \in UintInputs :
                call = [op |-> "uints", name |-> <<>>, args |-> <<x, y>>]
          /\ reply = NoReply
       \/ /\ \E b \in BytesInputs :
                call = [op |-> "bytes", name |-> <<>>, args |-> <<b>>]
          /\ reply = NoReply
       \/ /\ call = [op |-> "reply", name |-> <<>>, args |-> <<>>]
          /\ reply \in ReplyInputs

\* the function op returns res
Called(op, res) ==
    /\ call' = [call EXCEPT !.op = op]
    /\ result' = res
    /\ UNCHANGED <<store, family, err, num, reply, written, writer, procs>>

I2bAct ==
    /\ call.op = "uints"
    /\ Called("I2b", Returned(<<I2b(call.args[1]), I2b(call.args[2])>>))

\* B2i of what I2b returned
B2iOfI2bAct ==
    /\ call.op = "I2b"
    /\ Called("B2i(I2b)",
              IF B2iCall(result.val[1]).panic \/ B2iCall(result.val[2]).panic
              THEN Panicked
              ELSE Returned(<<B2iCall(result.val[1]).val,
                              B2iCall(result.val[2]).val>>))

B2iAct == call.op = "bytes" /\ Called("B2i", B2iCall(call.args[1]))

B2dsAct == call.op = "bytes" /\ Called("B2ds", B2ds(call.args[1]))

StringAct == call.op = "reply" /\ Called("String", ReplyString(reply))

IntAct == call.op = "reply" /\ Called("Int", ReplyInt(reply))

Int64Act == call.op = "reply" /\ Called("Int64", ReplyInt64(reply))

UintAct == call.op = "reply" /\ Called("Uint", ReplyUint(reply))

Uint64Act == call.op = "reply" /\ Called("Uint64", ReplyUint64(reply))

ListAct == call.op = "reply" /\ Called("List", ReplyList(reply))

DictAct == call.op = "reply" /\ Called("Dict", ReplyDict(reply))

JSONAct == call.op = "reply" /\ Called("JSON", ReplyJSON(reply))

NextCodec ==
    \/ I2bAct
    \/ B2iOfI2bAct
    \/ B2iAct
    \/ B2dsAct
    \/ StringAct
    \/ IntAct
    \/ Int64Act
    \/ UintAct
    \/ Uint64Act
    \/ ListAct
    \/ DictAct
    \/ JSONAct

SpecCodec == InitCodec /\ [][NextCodec]_vars

\* --- a client that works on one structure while other structures exist:
\* a hashmap and a sorted set of another name, and the structure of the
\* other family under the client's own name

NameB == NameA \o <<0>>

\* the structures of the other name
OtherName ==
    Zset(Hset(EmptyStore, NameB, K0, ShortVal).st, NameB, K0, 1).st

\* the store the client of family f finds
BesideHash == Zset(OtherName, NameA, K0, 1).st
BesideZset == Hset(OtherName, NameA, K0, ShortVal).st
Bystanders(f) == IF f = "hash" THEN BesideHash ELSE BesideZset

InitIsolation ==
    /\ family \in {"hash", "zset"}
    /\ store = Bystanders(family)
    /\ written =
          IF family = "hash"
          THEN WrittenAfter([h |-> AbsAbsent, z |-> AbsAbsent],
                            "Zset", <<K0, 1>>, 0)
          ELSE WrittenAfter([h |-> AbsAbsent, z |-> AbsAbsent],
                            "Hset", <<K0, ShortVal>>, 0)
    /\ call = NoCall
    /\ err = ErrNil
    /\ num = 0
    /\ reply = NoReply
    /\ result = NoResult
    /\ writer = 0
    /\ procs = NoProcs

SpecIsolation == InitIsolation /\ [][Next]_vars

\* --- concurrent callers of Hincr (family "hash") or Zincr (family "zset")
\* on one key.  db.DB.Update opens a write transaction, which waits for the
\* store's writer lock and then works on its own copy of the store; it runs
\* the closure, and commits (or rolls back) and releases the lock.

Procs == 1..NumProcs
IncrSteps == {1, 2}

RECURSIVE SumSteps(_, _)
SumSteps(f, S) ==
    IF S = {} THEN 0
    ELSE LET p == CHOOSE x \in S : TRUE
         IN  f[p].step + SumSteps(f, S \ {p})

\* the stores the callers may find: the key absent, or holding 1
IncrStores(f) ==
    IF f = "hash"
    THEN {EmptyStore, Hset(EmptyStore, NameA, K0, I2b(1)).st}
    ELSE {EmptyStore, Zset(EmptyStore, NameA, K0, 1).st}

InitConcurrentIncr ==
    /\ family \in {"hash", "zset"}
    /\ store \in IncrStores(family)
    /\ written =
          IF store = EmptyStore THEN [h |-> AbsAbsent, z |-> AbsAbsent]
          ELSE IF family = "hash"
          THEN WrittenAfter([h |-> AbsAbsent, z |-> AbsAbsent],
                            "Hset", <<K0, I2b(1)>>, 0)
          ELSE WrittenAfter([h |-> AbsAbsent, z |-> AbsAbsent],
                            "Zset", <<K0, 1>>, 0)
    /\ call = NoCall
    /\ err = ErrNil
    /\ num = 0
    /\ reply = NoReply
    /\ result = NoResult
    /\ writer = 0
    /\ procs \in [Procs -> {[pc |-> "begin", step |-> st, tx |-> EmptyStore,
                             err |-> ErrNil, num |-> 0] : st \in IncrSteps}]
    /\ (IF store = EmptyStore THEN 0 ELSE 1) + SumSteps(procs, Procs) <= scoreMax

\* the writer lock is free
LockAlwaysFree(w) == TRUE

LockFree(w) == w = 0

\* db.Begin(true): take the writer lock and a copy of the committed store
BeginAct(p) ==
    /\ procs[p].pc = "begin"
    /\ LockFree(writer)
    /\ writer' = p
    /\ procs' = [procs EXCEPT ![p].pc = "body", ![p].tx = store]
    /\ UNCHANGED <<store, family, call, err, num, reply, written, result>>

\* the closure of Hincr or Zincr runs on the transaction's copy
BodyAct(p) ==
    /\ procs[p].pc = "body"
    /\ LET r == IF family = "hash"
                THEN Hincr(procs[p].tx, NameA, K0, procs[p].step)
                ELSE Zincr(procs[p].tx, NameA, K0, procs[p].step)
       IN  procs' = [procs EXCEPT ![p].pc = "commit", ![p].tx = r.st,
                                  ![p].err = r.err, ![p].num = r.num]
    /\ UNCHANGED <<store, family, call, err, num, reply, written, result,
                   writer>>

\* the transaction commits what the closure wrote, or rolls back on an
\* error, and releases the lock; the call returns
CommitAct(p) ==
    /\ procs[p].pc = "commit"
    /\ store' = IF procs[p].err = ErrNil THEN procs[p].tx ELSE store
    /\ writer' = IF writer = p THEN 0 ELSE writer
    /\ procs' = [procs EXCEPT ![p].pc = "done"]
    /\ UNCHANGED <<family, call, err, num, reply, written, result>>

NextConcurrentIncr ==
    \E p \in Procs :
        \/ BeginAct(p)
        \/ BodyAct(p)
        \/ CommitAct(p)

SpecConcurrentIncr == InitConcurrentIncr /\ [][NextConcurrentIncr]_vars

\* ------------------------------------------------------------------ claims

HashBucket(name) == Bconcat(hashPrefix, name)
ZKeyBucket(name) == Bconcat(zetKeyPrefix, name)
ZScoreBucket(name) == Bconcat(zetScorePrefix, name)

MutatingOps ==
    {"Hset", "Hmset", "Hincr", "Hdel", "HdelBucket",
     "Zset", "Zmset", "Zincr", "Zdel", "ZdelBucket"}

\* the score index of name holds exactly the keys score||member of the
\* members of the member index
ZIndexAgree(s, name) ==
    /\ HasBucket(s, ZKeyBucket(name)) <=> HasBucket(s, ZScoreBucket(name))
    /\ HasBucket(s, ZKeyBucket(name)) /\ HasBucket(s, ZScoreBucket(name)) =>
          DOMAIN s[ZKeyBucket(name)] =
              { Bconcat(s[ZScoreBucket(name)][m], m) :
                    m \in DOMAIN s[ZScoreBucket(name)] }

\* C1: after every call of a sequence of Zset, Zincr and Zdel calls the
\* member index and the score index agree: the score index holds score||m
\* for every member m of the member index with its score, and no other key.
C1_SortedSetConsistency == \A name \in Names : ZIndexAgree(store, name)

\* C2: a mutating call that returns an error (or panics) leaves the whole
\* store, the existence and contents of every bucket, as it was.
C2_AllOrNothing ==
    [][call'.op \in MutatingOps /\ err' # ErrNil => store' = store]_vars

\* C2's case: Zset with an empty member has put score|| into the score index
\* of a set that did not exist, the member-index put was rejected, and
\* neither bucket nor key is left; or the second pair of Hmset was rejected
\* after the first was put.
C2_Witness ==
    \/ /\ call.op = "Zset"
       /\ call.args[1] = <<>>
       /\ err = ErrKeyRequired
       /\ store = EmptyStore
    \/ /\ call.op = "Hmset"
       /\ Len(call.args[1]) = 4
       /\ err = ErrKeyRequired
       /\ store = EmptyStore

\* --- what a scan is to return, stated on the Reply and the score index

\* every key of the score index is a ScoreLen-byte score followed by a member
ZWellFormed(s, name) ==
    \A k \in DOMAIN s[ZKeyBucket(name)] : Len(k) >= ScoreLen

\* the number of (member, score) pairs of a Reply and the composite key
\* score||member of its i-th pair
PairCount(rep) == Len(rep.Data) \div 2
PairKey(rep, i) == rep.Data[2 * i] \o rep.Data[2 * i - 1]

\* rep holds whole (member, score) pairs with ScoreLen-byte scores
IsPairList(rep) ==
    /\ rep.State # ErrPanic
    /\ Len(rep.Data) % 2 = 0
    /\ \A i \in 1..PairCount(rep) : Len(rep.Data[2 * i]) = ScoreLen

\* rep lists, in the order dir (-1 ascending, 1 descending), the first
\* min(limit, count) of the keys Q; limit < 1 stands for no limit
FirstOf(rep, Q, dir, limit) ==
    /\ IsPairList(rep)
    /\ PairCount(rep) =
          IF limit >= 1 THEN Min(limit, Cardinality(Q)) ELSE Cardinality(Q)
    /\ \A i \in 1..PairCount(rep) : PairKey(rep, i) \in Q
    /\ \A i, j \in 1..PairCount(rep) :
          i < j => BytesCompare(PairKey(rep, i), PairKey(rep, j)) = dir
    /\ \A q \in Q :
          \/ \E i \in 1..PairCount(rep) : PairKey(rep, i) = q
          \/ \A i \in 1..PairCount(rep) : BytesCompare(PairKey(rep, i), q) = dir

\* the cursor of a scan call: scoreStart||memberStart, an empty scoreStart
\* standing for the score dflt
StartKey(args, dflt) ==
    (IF args[2] = <<>> THEN [i \in 1..ScoreLen |-> dflt] ELSE args[2]) \o args[1]

\* the keys of the score index on the side dir of key start
KeysBeyond(s, name, start, dir) ==
    {k \in DOMAIN s[ZKeyBucket(name)] : BytesCompare(k, start) = -dir}

\* Scenario A, with the scores 10, 5, 20 scaled to 1, 0, 2 and the members
\* alice, bob as K0, K1: Zset(alice, 10), Zset(bob, 5), Zset(alice, 20)
ScenarioA ==
    Zset(Zset(Zset(EmptyStore, NameA, K0, 1).st, NameA, K1, 0).st, NameA, K0, 2).st

\* C3: Zscan on an existing sorted set, with an empty or ScoreLen-byte
\* scoreStart and a limit >= 1, returns in ascending key order exactly the
\* first min(limit, count) entries of the score index whose key is strictly
\* greater than scoreStart||memberStart, each as (member, score); and
\* Scenario A scanned from the start yields [(bob, 5), (alice, 20)].
C3_ZscanResult ==
    /\ call.op = "Zscan"
          /\ HasBucket(store, ZKeyBucket(call.name))
          /\ call.args[3] >= 1
          /\ ZWellFormed(store, call.name)
       => FirstOf(reply,
                  KeysBeyond(store, call.name, StartKey(call.args, 0), -1),
                  -1, call.args[3])
    /\ Zscan(ScenarioA, NameA, <<>>, I2b(0), 10)
          = Reply(replyOK, <<K1, I2b(0), K0, I2b(2)>>)

\* C3's case: both members are stored and a scan of two from the start has
\* returned bob, of the lower score, before alice; or a scan from the cursor
\* (alice, 0), a key of the set, has returned its successor and not itself.
C3_Witness ==
    /\ call.op = "Zscan"
    /\ \/ /\ call.args = <<<<>>, I2b(0), 2>>
          /\ reply.Data = <<K1, I2b(0), K0, I2b(scoreMax)>>
       \/ /\ call.args = <<K0, I2b(0), 1>>
          /\ reply.Data = <<K1, I2b(0)>>
          /\ Bconcat(I2b(0), K0) \in DOMAIN store[ZKeyBucket(call.name)]

\* the members of a Reply's pairs are in strictly ascending (dir = -1) or
\* descending (dir = 1) order of (score, member bytes)
InScoreMemberOrder(rep, dir) ==
    \A i, j \in 1..PairCount(rep) :
        i < j =>
            LET si == GetUint(rep.Data[2 * i], ScoreLen)
                sj == GetUint(rep.Data[2 * j], ScoreLen)
            IN  IF dir = -1
                THEN si < sj \/ (si = sj /\ BytesCompare(rep.Data[2 * i - 1],
                                                         rep.Data[2 * j - 1]) = -1)
                ELSE si > sj \/ (si = sj /\ BytesCompare(rep.Data[2 * i - 1],
                                                         rep.Data[2 * j - 1]) = 1)

\* rep lists every member of the member index exactly once, with its score
ListsEveryMember(rep, s, name) ==
    /\ IsPairList(rep)
    /\ PairCount(rep) = Cardinality(DOMAIN s[ZScoreBucket(name)])
    /\ \A m \in DOMAIN s[ZScoreBucket(name)] :
          \E i \in 1..PairCount(rep) :
              rep.Data[2 * i - 1] = m /\ rep.Data[2 * i] = s[ZScoreBucket(name)][m]

\* C4: over a sorted set built by Zset calls, Zscan with empty memberStart
\* and scoreStart and a limit not below the member count returns every
\* member exactly once in strictly ascending (score, member) order, and
\* Zrscan with empty memberStart and scoreStart returns the reverse.
C4_ScanOrder ==
    call.op \in {"Zscan", "Zrscan"}
       /\ HasBucket(store, ZKeyBucket(call.name))
       /\ call.args[1] = <<>> /\ call.args[2] = <<>>
       /\ call.args[3] >= Cardinality(DOMAIN store[ZScoreBucket(call.name)])
    => /\ ListsEveryMember(reply, store, call.name)
       /\ InScoreMemberOrder(reply, IF call.op = "Zscan" THEN -1 ELSE 1)

\* C5: Zrscan with a ScoreLen-byte scoreStart, a non-empty memberStart and a
\* limit >= 1 returns in descending key order exactly the first
\* min(limit, count) entries of the score index whose key is strictly less
\* than scoreStart||memberStart.
C5_ZrscanResult ==
    call.op = "Zrscan"
       /\ HasBucket(store, ZKeyBucket(call.name))
       /\ Len(call.args[2]) = ScoreLen /\ call.args[1] # <<>>
       /\ call.args[3] >= 1
       /\ ZWellFormed(store, call.name)
    => FirstOf(reply,
               KeysBeyond(store, call.name, StartKey(call.args, MaxByte), 1),
               1, call.args[3])

\* --- increments

\* a key both puts of the call accept: non-empty and, with a score in front
\* when the call also writes the score index, within the store's key size
AcceptedKey(op, key) ==
    /\ Len(key) >= 1
    /\ Len(key) + (IF op \in {"Zset", "Zmset", "Zincr"} THEN ScoreLen ELSE 0)
           <= MaxKeySize

\* the bucket in which a call keeps the value of a key
ValueBucket(op, name) ==
    IF op \in {"Hset", "Hmset", "Hincr", "Hget", "Hmget"}
    THEN HashBucket(name) ELSE ZScoreBucket(name)

IsStored(s, bn, key) == HasBucket(s, bn) /\ key \in DOMAIN s[bn]

\* the stored value is absent or holds a number (ScoreLen bytes at least)
HoldsNumber(s, bn, key) == IsStored(s, bn, key) => Len(s[bn][key]) >= ScoreLen

\* the number stored for key, an absent key counting as 0
StoredNumber(s, bn, key) ==
    IF IsStored(s, bn, key) THEN GetUint(s[bn][key], ScoreLen) ELSE 0

\* the call that has just returned is an increment of a number the store
\* holds (or of an absent key) under a key the store accepts
IncrReturned(c, s) ==
    /\ c.op \in {"Hincr", "Zincr"}
    /\ AcceptedKey(c.op, c.args[1])
    /\ HoldsNumber(s, ValueBucket(c.op, c.name), c.args[1])

\* the increment c of the value v stored in s has succeeded with result n
IncrStored(c, s2, e, n, want) ==
    /\ e = ErrNil
    /\ n = want
    /\ IsStored(s2, ValueBucket(c.op, c.name), c.args[1])
    /\ s2[ValueBucket(c.op, c.name)][c.args[1]] = PutUint(want, ScoreLen)

\* C6: for a stored number v (absent: 0) and an unsigned step s > 0, Hincr and
\* Zincr fail with the overflow error and leave the store unchanged when
\* v + s > scoreMax, and otherwise store and return exactly v + s.
C6_OverflowGuard ==
    [][IncrReturned(call', store) /\ call'.args[2] > 0 =>
          LET v == StoredNumber(store, ValueBucket(call'.op, call'.name),
                                call'.args[1])
              s == call'.args[2]
          IN  IF v + s > scoreMax
              THEN err' = ErrOverflow /\ store' = store
              ELSE IncrStored(call', store', err', num', v + s)]_vars

\* C6's case: a score of scoreMax was incremented by a positive step, the
\* call failed and the score is still scoreMax; or an increment within range
\* has been stored and returned.
C6_Witness ==
    \/ /\ call.op = "Zincr"
       /\ call.args[2] > 0
       /\ err = ErrOverflow
       /\ IsStored(store, ZScoreBucket(call.name), call.args[1])
       /\ store[ZScoreBucket(call.name)][call.args[1]] = I2b(scoreMax)
    \/ /\ call.op = "Hincr"
       /\ call.args[2] = scoreMax - 1
       /\ err = ErrNil
       /\ num = scoreMax

\* C7: for a negative step d passed as its two's complement (the unsigned
\* step is d + scoreMax + 1), Hincr and Zincr succeed, storing and returning
\* v + d, exactly when v + d >= 0, and fail with the overflow error without
\* mutating state when v + d < 0.
C7_SignedStep ==
    [][IncrReturned(call', store) /\ 2 * call'.args[2] >= UintMod =>
          LET v == StoredNumber(store, ValueBucket(call'.op, call'.name),
                                call'.args[1])
              d == call'.args[2] - UintMod
          IN  IF v + d >= 0
              THEN IncrStored(call', store', err', num', v + d)
              ELSE err' = ErrOverflow /\ store' = store]_vars

\* --- point lookups

\* what a lookup of key is to reply from the history of writes, nf being
\* the status of a missing key
ExpectedGet(m, key, nf) ==
    IF ~m.present THEN Reply(bucketNotFound, <<>>)
    ELSE IF key \in DOMAIN m.map THEN Reply(replyOK, <<m.map[key]>>)
    ELSE Reply(nf, <<>>)

\* C8 as claimed: Hget and Zget reply ok with the last value written when
\* the key is present, not_found when the namespace exists and the key is
\* absent, bucket_not_found when the namespace does not exist.
C8_StatusNotFound ==
    /\ call.op = "Hget" => reply = ExpectedGet(written.h, call.args[1], replyNotFound)
    /\ call.op = "Zget" => reply = ExpectedGet(written.z, call.args[1], replyNotFound)

\* C8, amended: as claimed, but the status of an absent key in an existing
\* namespace is key_not_found.
C8_PointLookup ==
    /\ call.op = "Hget" => reply = ExpectedGet(written.h, call.args[1], keyNotFound)
    /\ call.op = "Zget" => reply = ExpectedGet(written.z, call.args[1], keyNotFound)

\* C8's case: a key was looked up that the existing namespace does not hold.
C8_Witness ==
    \/ /\ call.op = "Hget"
       /\ written.h.present
       /\ call.args[1] \notin DOMAIN written.h.map
       /\ reply.State = keyNotFound
    \/ /\ call.op = "Zget"
       /\ written.z.present
       /\ call.args[1] \notin DOMAIN written.z.map
       /\ reply.State = keyNotFound

\* --- multi-set and multi-get

\* the keys of the pairs of kvs, and the value of the last pair of key k
PairKeys(kvs) == {kvs[i] : i \in {j \in 1..Len(kvs) : j % 2 = 1}}

LastValue(kvs, k) ==
    LET at == {i \in 1..Len(kvs) : i % 2 = 1 /\ kvs[i] = k}
    IN  kvs[(CHOOSE i \in at : \A j \in at : j <= i) + 1]

\* bucket bn of s2 is bucket bn of s (empty if absent) with every pair of kvs
\* upserted, a later pair of a key overriding an earlier one
Upserted(s, s2, bn, kvs) ==
    /\ HasBucket(s2, bn)
    /\ DOMAIN s2[bn] =
          (IF HasBucket(s, bn) THEN DOMAIN s[bn] ELSE {}) \cup PairKeys(kvs)
    /\ \A k \in DOMAIN s2[bn] :
          s2[bn][k] = IF k \in PairKeys(kvs) THEN LastValue(kvs, k) ELSE s[bn][k]

\* arguments the store accepts: keys it can hold and, for Zmset, scores of
\* ScoreLen bytes
ValidKvs(op, kvs) ==
    \A i \in 1..Len(kvs) :
        IF i % 2 = 1 THEN AcceptedKey(op, kvs[i])
        ELSE op = "Zmset" => Len(kvs[i]) = ScoreLen

\* C9: Hmset and Zmset with zero or an odd number of arguments fail and write
\* nothing (no key, no namespace); with a positive even number of valid
\* arguments they succeed and upsert all pairs, a later pair for a key
\* overriding an earlier one (Zmset in the member index, the score index
\* staying in agreement with it).
C9_MultiSet ==
    [][call'.op \in {"Hmset", "Zmset"} =>
          LET kvs == call'.args[1]
              bn == ValueBucket(call'.op, call'.name)
          IN  IF Len(kvs) = 0 \/ Len(kvs) % 2 = 1
              THEN err' # ErrNil /\ store' = store
              ELSE ValidKvs(call'.op, kvs) =>
                     /\ err' = ErrNil
                     /\ Upserted(store, store', bn, kvs)
                     /\ call'.op = "Zmset" /\ ZIndexAgree(store, call'.name)
                           => ZIndexAgree(store', call'.name)]_vars

\* C9's case: Hmset was called with two pairs for one key and the key holds
\* the later value; or with three arguments, and no namespace exists.
C9_Witness ==
    \/ /\ call.op = "Hmset"
       /\ call.args[1] = <<K0, I2b(1), K0, I2b(scoreMax)>>
       /\ err = ErrNil
       /\ store[HashBucket(call.name)][K0] = I2b(scoreMax)
    \/ /\ call.op = "Zmset"
       /\ Len(call.args[1]) = 3
       /\ err = ErrKvsLen
       /\ store = EmptyStore

\* the pairs a multi-get of keys is to return from the history of writes:
\* (key, value) of the requested keys that are present, in request order
RECURSIVE PresentPairs(_, _)
PresentPairs(m, keys) ==
    IF keys = <<>> THEN <<>>
    ELSE (IF Head(keys) \in DOMAIN m.map
          THEN <<Head(keys), m.map[Head(keys)]>> ELSE <<>>)
             \o PresentPairs(m, Tail(keys))

WrittenOf(op) == IF op = "Hmget" THEN written.h ELSE written.z

ErrorStates ==
    {replyError, replyClientError, replyNotFound, keyNotFound, bucketNotFound}

\* C10 as claimed: Hmget and Zmget on an existing namespace return, in
\* request order, the (key, value) pairs of the requested keys that are
\* present and never report an error status because keys are missing; an
\* absent namespace yields bucket_not_found.
C10_NeverErrorStatus ==
    call.op \in {"Hmget", "Zmget"} =>
        IF WrittenOf(call.op).present
        THEN /\ reply.Data = PresentPairs(WrittenOf(call.op), call.args[1])
             /\ call.args[1] # <<>> => reply.State \notin ErrorStates
        ELSE reply = Reply(bucketNotFound, <<>>)

\* C10, amended: as claimed, but the status is ok only when at least one
\* requested key is present; when none is, Data is empty and the status is
\* error.
C10_MultiGet ==
    call.op \in {"Hmget", "Zmget"} =>
        IF WrittenOf(call.op).present
        THEN /\ reply.Data = PresentPairs(WrittenOf(call.op), call.args[1])
             /\ reply.State = IF reply.Data # <<>> THEN replyOK ELSE replyError
        ELSE reply = Reply(bucketNotFound, <<>>)

\* C10's case: two keys were requested in descending order, one of them
\* missing or both present; or every requested key was missing.
C10_Witness ==
    \/ /\ call.op = "Hmget"
       /\ call.args[1] = <<K1, K0>>
       /\ Len(reply.Data) = 4
    \/ /\ call.op = "Zmget"
       /\ call.args[1] = <<K0, K1>>
       /\ written.z.present
       /\ reply = Reply(replyError, <<>>)

\* --- hashmap scans

\* rep lists, in the order dir (-1 ascending, 1 descending), the first
\* min(limit, count) of the keys Q of the map m, each with its value
HFirstOf(rep, m, Q, dir, limit) ==
    /\ rep.State # ErrPanic
    /\ Len(rep.Data) % 2 = 0
    /\ PairCount(rep) = Min(limit, Cardinality(Q))
    /\ \A i \in 1..PairCount(rep) :
          /\ rep.Data[2 * i - 1] \in Q
          /\ rep.Data[2 * i] = m[rep.Data[2 * i - 1]]
    /\ \A i, j \in 1..PairCount(rep) :
          i < j => BytesCompare(rep.Data[2 * i - 1], rep.Data[2 * j - 1]) = dir
    /\ \A q \in Q :
          \/ \E i \in 1..PairCount(rep) : rep.Data[2 * i - 1] = q
          \/ \A i \in 1..PairCount(rep) :
                BytesCompare(rep.Data[2 * i - 1], q) = dir

\* the keys of the map m on the side dir of key start
HKeysBeyond(m, start, dir) ==
    {k \in DOMAIN m : BytesCompare(k, start) = -dir}

\* the keys a client collects by paging: it calls Hscan from keyStart and
\* passes the last key of each page as the next keyStart until a page is
\* empty (or after fuel pages)
RECURSIVE HscanPages(_, _, _, _, _)
HscanPages(s, name, keyStart, limit, fuel) ==
    LET rep == Hscan(s, name, keyStart, limit)
        n == PairCount(rep)
    IN  IF fuel = 0 \/ n = 0 THEN <<>>
        ELSE [i \in 1..n |-> rep.Data[2 * i - 1]]
                 \o HscanPages(s, name, rep.Data[2 * n - 1], limit, fuel - 1)

\* the sequence q holds every element of S exactly once
EnumeratesOnce(q, S) ==
    /\ Len(q) = Cardinality(S)
    /\ {q[i] : i \in 1..Len(q)} = S

\* C11: Hscan on an existing hashmap, for every keyStart (the empty one too)
\* and every limit >= 1, returns in ascending key order exactly the first
\* min(limit, count) key/value pairs whose key is strictly greater than
\* keyStart, keyStart itself never; and paging from the empty key by the
\* last returned key enumerates every key exactly once.
C11_HscanResult ==
    /\ call.op = "Hscan" /\ written.h.present /\ call.args[2] >= 1
       => /\ HFirstOf(reply, written.h.map,
                      HKeysBeyond(written.h.map, call.args[1], -1),
                      -1, call.args[2])
          /\ \A i \in 1..PairCount(reply) : reply.Data[2 * i - 1] # call.args[1]
    /\ \A name \in Names :
          HasBucket(store, HashBucket(name)) =>
              \A limit \in Limits \ {0} :
                  EnumeratesOnce(
                      HscanPages(store, name, <<>>, limit,
                                 Cardinality(DOMAIN store[HashBucket(name)]) + 1),
                      DOMAIN store[HashBucket(name)])

\* C11's case: the hashmap holds three keys and a scan of one pair from the
\* first key, a key of the map, has returned the second key and no other.
C11_Witness ==
    /\ call.op = "Hscan"
    /\ call.args = <<K0, 1>>
    /\ HasBucket(store, HashBucket(call.name))
    /\ DOMAIN store[HashBucket(call.name)] = {K0, K1, KAfter}
    /\ Len(reply.Data) = 2
    /\ reply.Data[1] = K1

\* C12: Hrscan on an existing hashmap completes and returns, in descending
\* key order, the first min(limit, count) key/value pairs whose key is
\* strictly less than keyStart (every key when keyStart is empty), with
\* status ok when pairs are returned; on an absent namespace its status is
\* bucket_not_found.
C12_HrscanResult ==
    call.op = "Hrscan" =>
        IF written.h.present
        THEN /\ reply.State # ErrPanic
             /\ call.args[2] >= 1 =>
                  /\ HFirstOf(reply, written.h.map,
                              IF call.args[1] = <<>> THEN DOMAIN written.h.map
                              ELSE HKeysBeyond(written.h.map, call.args[1], 1),
                              1, call.args[2])
                  /\ reply.Data # <<>> => reply.State = replyOK
        ELSE reply = Reply(bucketNotFound, <<>>)

\* --- deletes

\* bucket bn of s without key k, every other bucket and key as in s
Without(s, bn, k) ==
    [s EXCEPT ![bn] = [x \in DOMAIN s[bn] \ {k} |-> s[bn][x]]]

\* the members a Reply of a sorted-set query lists
MembersOf(rep) == {rep.Data[2 * i - 1] : i \in 1..PairCount(rep)}

\* no Zscan or Zrscan of the sorted set name in s returns member m
NoScanReturns(s, name, m) ==
    \A keyStart \in KeyStarts, scoreStart \in ScoreStarts, limit \in Limits :
        /\ m \notin MembersOf(Zscan(s, name, keyStart, scoreStart, limit))
        /\ m \notin MembersOf(Zrscan(s, name, keyStart, scoreStart, limit))

\* C13: Hdel and Zdel return no error; when the namespace or the key/member
\* is absent they leave the whole store unchanged and create no namespace;
\* Hdel of a present key removes that key only; Zdel of a present member
\* removes its zscore entry and its zkey entry and nothing else, after which
\* Zget reports the member missing and no scan returns it.
C13_DeleteNoOp ==
    [][/\ call'.op = "Hdel" =>
             /\ err' = ErrNil
             /\ store' = IF IsStored(store, HashBucket(call'.name), call'.args[1])
                         THEN Without(store, HashBucket(call'.name), call'.args[1])
                         ELSE store
       /\ call'.op = "Zdel" =>
             /\ err' = ErrNil
             /\ IF /\ HasBucket(store, ZKeyBucket(call'.name))
                   /\ IsStored(store, ZScoreBucket(call'.name), call'.args[1])
                THEN /\ store' =
                          Without(Without(store, ZScoreBucket(call'.name),
                                          call'.args[1]),
                                  ZKeyBucket(call'.name),
                                  Bconcat(store[ZScoreBucket(call'.name)][call'.args[1]],
                                          call'.args[1]))
                     /\ Zget(store', call'.name, call'.args[1])
                            = Reply(keyNotFound, <<>>)
                     /\ NoScanReturns(store', call'.name, call'.args[1])
                ELSE store' = store]_vars

\* C13's case: Zdel has returned and the sorted set exists with neither a
\* zscore nor a zkey entry left (its last member was removed whole, or the
\* member was already absent); or Hdel was called on a hashmap that does not
\* exist and none was created.
C13_Witness ==
    \/ /\ call.op = "Zdel"
       /\ err = ErrNil
       /\ call.args[1] = K0
       /\ HasBucket(store, ZKeyBucket(call.name))
       /\ HasBucket(store, ZScoreBucket(call.name))
       /\ DOMAIN store[ZKeyBucket(call.name)] = {}
       /\ DOMAIN store[ZScoreBucket(call.name)] = {}
    \/ /\ call.op = "Hdel"
       /\ err = ErrNil
       /\ call.args[1] = K0
       /\ store = EmptyStore

\* the store s without the buckets B
WithoutBuckets(s, B) == [x \in DOMAIN s \ B |-> s[x]]

\* C14: HdelBucket removes the hash namespace of name and ZdelBucket removes
\* the zkey and the zscore namespace of name together, so that a following
\* Hget/Zget reports bucket_not_found; when the namespace(s) do not exist
\* the call completes without error and changes nothing.
C14_DeleteAll ==
    [][/\ call'.op = "HdelBucket" =>
             /\ err' = ErrNil
             /\ store' = WithoutBuckets(store, {HashBucket(call'.name)})
             /\ \A key \in HKeys :
                   Hget(store', call'.name, key) = Reply(bucketNotFound, <<>>)
       /\ call'.op = "ZdelBucket" =>
             /\ err' = ErrNil
             /\ store' = WithoutBuckets(store, {ZKeyBucket(call'.name),
                                                ZScoreBucket(call'.name)})
             /\ \A key \in ZMembers :
                   Zget(store', call'.name, key) = Reply(bucketNotFound, <<>>)]_vars

\* --- Zset twice

\* C15: in every reachable state, a second Zset with the same member and
\* score returns what the first returned and leaves the whole store, the
\* zkey and the zscore namespace included, exactly as the first call left it.
C15_ZsetIdempotent ==
    \A name \in Names, key \in ZMembers, val \in ZVals :
        LET first == Zset(store, name, key, val)
            second == Zset(first.st, name, key, val)
        IN  /\ second.st = first.st
            /\ second.err = first.err

\* C15's case: a member holds the score 0 and a Zset to the score 1 replaces
\* its entry of the score index; the same Zset again changes nothing.
C15_Witness ==
    /\ IsStored(store, ZScoreBucket(NameA), K0)
    /\ store[ZScoreBucket(NameA)][K0] = I2b(0)
    /\ Bconcat(I2b(0), K0) \in DOMAIN store[ZKeyBucket(NameA)]
    /\ LET first == Zset(store, NameA, K0, 1)
       IN  /\ first.err = ErrNil
           /\ first.st # store
           /\ DOMAIN first.st[ZKeyBucket(NameA)]
                 = (DOMAIN store[ZKeyBucket(NameA)] \ {Bconcat(I2b(0), K0)})
                       \cup {Bconcat(I2b(1), K0)}
           /\ Zset(first.st, NameA, K0, 1).st = first.st

\* --- codec

\* the byte strings of the width of a score
ScoreBytes == [1..ScoreLen -> 0..MaxByte]

\* C16: the score codec is an order-preserving bijection between the
\* unsigned integers 0..scoreMax and the byte strings of the score's width:
\* B2i(I2b(x)) = x, every such byte string is the encoding of the number it
\* decodes to, and x < y exactly when I2b(x) is lexicographically smaller
\* than I2b(y).
C16_CodecOrderBijection ==
    /\ call.op = "I2b" =>
          /\ ~result.panic
          /\ result.val[1] \in ScoreBytes /\ result.val[2] \in ScoreBytes
          /\ call.args[1] < call.args[2]
                <=> BytesCompare(result.val[1], result.val[2]) = -1
    /\ call.op = "B2i(I2b)" => result = Returned(call.args)
    /\ call.op = "B2i" /\ call.args[1] \in ScoreBytes =>
          /\ ~result.panic
          /\ result.val \in UintInputs
          /\ I2b(result.val) = call.args[1]

\* C16's case: 1 and the byte base, whose encodings differ in the last two
\* bytes, were encoded and decoded again.
C16_Witness ==
    /\ call.op = "B2i(I2b)"
    /\ call.args = <<1, ByteBase>>
    /\ result.val = <<1, ByteBase>>

\* C17: decoding never faults on short or missing input: B2i and B2ds of a
\* byte string shorter than a score, and every Reply decoder on a Reply with
\* empty Data or a short first element, return a value and do not panic.
C17_DecodeNeverPanics ==
    call.op \in {"B2i", "B2ds", "String", "Int", "Int64", "Uint", "Uint64",
                 "List", "Dict", "JSON"}
        => ~result.panic

\* --- concurrent increments

\* the callers whose call has returned
Done == {p \in DOMAIN procs : procs[p].pc = "done"}

\* the value of the key before the callers started, from the history
InitialValue ==
    LET m == IF family = "hash" THEN written.h.map ELSE written.z.map
    IN  IF K0 \in DOMAIN m THEN GetUint(m[K0], ScoreLen) ELSE 0

\* the value of the key in the committed store
CommittedValue ==
    StoredNumber(store,
                 IF family = "hash" THEN HashBucket(NameA) ELSE ZScoreBucket(NameA),
                 K0)

\* the orders in which the callers S may have run
SerialOrders(S) ==
    {o \in [1..Cardinality(S) -> S] : \A i, j \in DOMAIN o : o[i] = o[j] => i = j}

\* C18: the read-modify-write of each concurrent Hincr (Zincr) runs in one
\* write transaction serialized against the others and no update is lost:
\* at most one caller is inside a transaction, every call that has returned
\* succeeded, the committed value is the initial value plus the steps of the
\* calls that have returned (all of them at the end), the values returned
\* are the successive partial sums of some serial order, and for Zincr the
\* two indexes agree after every commit.
C18_AtomicIncrement ==
    /\ Cardinality({p \in DOMAIN procs : procs[p].pc \in {"body", "commit"}}) <= 1
    /\ \A p \in Done : procs[p].err = ErrNil
    /\ CommittedValue = InitialValue + SumSteps(procs, Done)
    /\ \E o \in SerialOrders(Done) :
          \A i \in DOMAIN o :
              procs[o[i]].num =
                  InitialValue + SumSteps(procs, {o[j] : j \in 1..i})
    /\ family = "zset" => ZIndexAgree(store, NameA)

\* C18's case: every caller has returned, the steps were not all the same,
\* the key held 1 before, and the sorted set holds the sum.
C18_Witness ==
    /\ family = "zset"
    /\ Done = Procs
    /\ \E p, q \in Procs : procs[p].step # procs[q].step
    /\ InitialValue = 1
    /\ CommittedValue = 1 + SumSteps(procs, Procs)

\* --- isolation

QueryOps ==
    {"Hget", "Hmget", "Hscan", "Hrscan", "Zget", "Zmget", "Zscan", "Zrscan"}

\* what the mutating call c returns on the store s
ApplyMutation(c, s) ==
    CASE c.op = "Hset" -> Hset(s, c.name, c.args[1], c.args[2])
      [] c.op = "Hmset" -> Hmset(s, c.name, c.args[1])
      [] c.op = "Hincr" -> Hincr(s, c.name, c.args[1], c.args[2])
      [] c.op = "Hdel" -> Hdel(s, c.name, c.args[1])
      [] c.op = "HdelBucket" -> HdelBucket(s, c.name)
      [] c.op = "Zset" -> Zset(s, c.name, c.args[1], c.args[2])
      [] c.op = "Zmset" -> Zmset(s, c.name, c.args[1])
      [] c.op = "Zincr" -> Zincr(s, c.name, c.args[1], c.args[2])
      [] c.op = "Zdel" -> Zdel(s, c.name, c.args[1])
      [] c.op = "ZdelBucket" -> ZdelBucket(s, c.name)

\* the Reply of the query c on the store s
ApplyQuery(c, s) ==
    CASE c.op = "Hget" -> Hget(s, c.name, c.args[1])
      [] c.op = "Hmget" -> Hmget(s, c.name, c.args[1])
      [] c.op = "Hscan" -> Hscan(s, c.name, c.args[1], c.args[2])
      [] c.op = "Hrscan" -> Hrscan(s, c.name, c.args[1], c.args[2])
      [] c.op = "Zget" -> Zget(s, c.name, c.args[1])
      [] c.op = "Zmget" -> Zmget(s, c.name, c.args[1])
      [] c.op = "Zscan" -> Zscan(s, c.name, c.args[1], c.args[2], c.args[3])
      [] c.op = "Zrscan" -> Zrscan(s, c.name, c.args[1], c.args[2], c.args[3])

\* the namespaces of the other structures, and the store without them
Others == DOMAIN Bystanders(family)
Own(s) == WithoutBuckets(s, Others)

\* C19: an operation on the structure of name N of one family leaves every
\* namespace of a structure of another name, and the namespaces of the
\* other family's structure of name N, as they were; what it returns and
\* what it writes do not depend on them; a query changes no namespace and
\* creates none; the family tags are three distinct single bytes.
C19_Isolation ==
    [][/\ Cardinality({hashPrefix, zetKeyPrefix, zetScorePrefix}) = 3
       /\ \A t \in {hashPrefix, zetKeyPrefix, zetScorePrefix} : Len(t) = 1
       /\ \A bn \in Others :
             /\ HasBucket(store', bn)
             /\ store'[bn] = Bystanders(family)[bn]
       /\ call'.op \in QueryOps =>
             /\ store' = store
             /\ reply' = ApplyQuery(call', Own(store))
       /\ call'.op \in MutatingOps =>
             LET alone == ApplyMutation(call', Own(store))
             IN  /\ err' = alone.err
                 /\ num' = alone.num
                 /\ Own(store') = alone.st]_vars

\* C19's case: the hashmap of a name was dropped (or a member of the sorted
\* set of the name was rescored) while the other family's structure of the
\* same name and the structures of another name were there, and they still
\* are.
C19_Witness ==
    /\ Others \subseteq DOMAIN store
    /\ Cardinality(Others) >= 4
    /\ \/ /\ call.op = "HdelBucket"
          /\ err = ErrNil
          /\ K0 \in DOMAIN store[ZScoreBucket(NameA)]
       \/ /\ call.op = "Zincr"
          /\ err = ErrNil
          /\ K0 \in DOMAIN store[HashBucket(NameA)]
          /\ IsStored(store, ZScoreBucket(NameA), K0)

\* --- status and limit of the queries

ScanOps == {"Hscan", "Zscan", "Zrscan"}

\* the namespace of the structure a query reads exists
NamespaceExists(c, s) ==
    HasBucket(s, IF c.op \in {"Hget", "Hmget", "Hscan"} THEN HashBucket(c.name)
                 ELSE IF c.op \in {"Zget", "Zmget"} THEN ZScoreBucket(c.name)
                 ELSE ZKeyBucket(c.name))

\* the scan c with a limit that no result of it on the store s can reach
WithLimitBeyond(c, s) ==
    LET total == IF c.op = "Hscan"
                 THEN Cardinality(DOMAIN s[HashBucket(c.name)])
                 ELSE Cardinality(DOMAIN s[ZKeyBucket(c.name)])
    IN  [c EXCEPT !.args[Len(c.args)] = total + 1]

\* C20: the Reply of Hget, Hmget, Hscan, Zget, Zmget, Zscan and Zrscan has
\* status ok if and only if its Data is non-empty; a multi-get or scan of an
\* existing namespace that matches nothing returns empty Data with status
\* error; and a limit of 0 or below does not cap a scan: the Reply is the
\* one of the same scan with a limit above the number of entries.
C20_StatusAndLimit ==
    call.op \in {"Hget", "Hmget", "Hscan", "Zget", "Zmget", "Zscan", "Zrscan"}
       /\ reply.State # ErrPanic
    => /\ reply.State = replyOK <=> reply.Data # <<>>
       /\ call.op \notin {"Hget", "Zget"} /\ NamespaceExists(call, store)
             /\ reply.Data = <<>>
          => reply.State = replyError
       /\ call.op \in ScanOps /\ NamespaceExists(call, store)
             /\ call.args[Len(call.args)] <= 0
          => reply = ApplyQuery(WithLimitBeyond(call, store), store)

\* C20's case: a scan with limit 0 or below has returned more than one
\* entry; or a multi-get of an existing namespace has found none of two
\* requested keys.
C20_Witness ==
    \/ /\ call.op = "Zscan"
       /\ call.args[3] = 0
       /\ Len(reply.Data) = 4
    \/ /\ call.op = "Hscan"
       /\ call.args[2] = -1
       /\ Len(reply.Data) = 6
    \/ /\ call.op = "Hmget"
       /\ Len(call.args[1]) = 2
       /\ written.h.present
       /\ reply = Reply(replyError, <<>>)

====
